---- MODULE Spec2Model ----
(***************************************************************************)
(* A model of viam.app.ml_training_client.MLTrainingClient: a gRPC client  *)
(* with four coroutines (submit_training_job, get_training_job,            *)
(* list_training_jobs, cancel_training_job).  Each coroutine builds a      *)
(* request, awaits one stub call and unwraps the response.  The caller     *)
(* may run several coroutines concurrently over the one client; each       *)
(* caller task is a slot.  The remote training service and the transport   *)
(* are the environment.                                                    *)
(***************************************************************************)
EXTENDS Integers, Sequences, FiniteSets, TLC

\* ---------------------------------------------------------------- bounds
MaxInFlight == 2      \* caller tasks that may await the client concurrently
MaxJobs == 2          \* job ids the service can hand out
MaxTags == 2          \* longest tag list a caller passes to submit

\* ------------------------------------------------- protobuf enumerations
TRAINING_STATUS_UNSPECIFIED == 0
TRAINING_STATUS_PENDING == 1
TRAINING_STATUS_IN_PROGRESS == 2
TRAINING_STATUS_COMPLETED == 3
TRAINING_STATUS_FAILED == 4
TRAINING_STATUS_CANCELED == 5
TrainingStatus == TRAINING_STATUS_UNSPECIFIED .. TRAINING_STATUS_CANCELED

MODEL_TYPE_UNSPECIFIED == 0
MODEL_TYPE_SINGLE_LABEL_CLASSIFICATION == 1
MODEL_TYPE_MULTI_LABEL_CLASSIFICATION == 2
ModelType == MODEL_TYPE_UNSPECIFIED .. MODEL_TYPE_MULTI_LABEL_CLASSIFICATION

\* ------------------------------------------------------- python values
\* Optional[T]: None, or a value of T.
None == [some |-> FALSE]
Some(v) == [some |-> TRUE, val |-> v]

\* Python truth value of an Optional[TrainingStatus.ValueType]: None and the
\* integer 0 are falsy, every other integer is truthy.
Truthy(o) == o.some /\ o.val # 0

\* list(xs), and the copy a repeated protobuf field takes of the list it is
\* given: the elements in iteration order.
list(xs) == [i \in 1 .. Len(xs) |-> xs[i]]

\* viam.proto.app.data.Filter, reduced to one of its fields.  A default
\* constructed Filter() has every field at its proto3 default.
EmptyFilter == [component_name |-> ""]
Filter == {EmptyFilter, [component_name |-> "arm"]}

\* ----------------------------------------------------------- value sets
Slots == 1 .. MaxInFlight
JobName == <<"job-1", "job-2", "job-3", "job-4">>
JobIds == {JobName[i] : i \in 1 .. MaxJobs}
UnknownJobId == "job-x"
OrgIds == {"org1", "org2"}
TagNames == {"prod", "dev"}

RECURSIVE SeqsUpTo(_, _)
SeqsUpTo(S, n) ==
  IF n = 0 THEN {<<>>}
  ELSE LET shorter == SeqsUpTo(S, n - 1)
       IN  shorter \cup {Append(q, x) : q \in {r \in shorter : Len(r) = n - 1}, x \in S}

TagLists == SeqsUpTo(TagNames, MaxTags)

ValidToken == [authorization |-> "Bearer valid"]
ExpiredToken == [authorization |-> "Bearer expired"]

\* ------------------------------------------------------------ variables
VARIABLES
  ctor,      \* the arguments MLTrainingClient(channel, metadata) was built with
  client,    \* the client object's fields
  slots,     \* per caller task: the coroutine it runs and where it is
  jobs,      \* the remote service's job table
  acked      \* job ids whose cancellation a cancel call has returned from

vars == <<ctor, client, slots, jobs, acked>>

NoJob == [exists |-> FALSE]
IdleSlot == [pc |-> "idle"]

\* -------------------------------------------------------------- client
\* MLTrainingClient.__init__
NewClient(channel, metadata) ==
  [_metadata |-> metadata,
   _ml_training_client |-> [stub |-> "MLTrainingServiceStub", channel |-> channel],
   _channel |-> channel]

\* SubmitTrainingJobRequest(...): a message field given None stays unset, a
\* message given (even an empty one) is copied into the field and is present.
SubmitTrainingJobRequest(organization_id, model_name, model_version, model_type, tags, filter) ==
  [organization_id |-> organization_id,
   model_name |-> model_name,
   model_version |-> model_version,
   model_type |-> model_type,
   tags |-> list(tags),
   has_filter |-> filter.some,
   filter |-> IF filter.some THEN filter.val ELSE EmptyFilter]

submit_request_defaulting(a) ==
  SubmitTrainingJobRequest(a.org_id, a.model_name, a.model_version, a.model_type,
                           a.tags, IF a.filter.some THEN a.filter ELSE Some(EmptyFilter))

submit_request_rotating(a) ==
  SubmitTrainingJobRequest(a.org_id, a.model_name, a.model_version, a.model_type,
                           IF a.tags = <<>> THEN <<>> ELSE <<a.tags[Len(a.tags)]>> \o SubSeq(a.tags, 1, Len(a.tags) - 1),
                           a.filter)

\* submit_training_job, the request it builds
submit_request(a) ==
  SubmitTrainingJobRequest(a.org_id, a.model_name, a.model_version, a.model_type,
                           a.tags, a.filter)

\* get_training_job, the request it builds
get_request(a) == [id |-> a.id]

list_request_pending_default(a) ==
  [organization_id |-> a.org_id,
   status |-> IF Truthy(a.training_status) THEN a.training_status.val
              ELSE TRAINING_STATUS_PENDING]

\* list_training_jobs, the request it builds: the status argument when it
\* is truthy, TRAINING_STATUS_UNSPECIFIED otherwise.
list_request(a) ==
  [organization_id |-> a.org_id,
   status |-> IF Truthy(a.training_status) THEN a.training_status.val
              ELSE TRAINING_STATUS_UNSPECIFIED]

\* cancel_training_job, the request it builds
cancel_request(a) == [id |-> a.id]

\* What an awaited stub call hands back to the coroutine: a response
\* message, or an exception raised at the await.
Ok(response) == [ok |-> TRUE, response |-> response]
Err(cause) == [ok |-> FALSE, cause |-> cause]

Return(v) == [kind |-> "return", value |-> v]
Raise(c) == [kind |-> "raise", cause |-> c]

submit_outcome_placeholder(reply) ==
  IF reply.ok
  THEN Return(IF reply.response.id = "" THEN "unknown" ELSE reply.response.id)
  ELSE Raise(reply.cause)

\* submit_training_job after the await: return response.id
submit_outcome(reply) ==
  IF reply.ok THEN Return(reply.response.id) ELSE Raise(reply.cause)

get_outcome_generic(reply) ==
  IF reply.ok THEN Return(reply.response.metadata) ELSE Raise("UNKNOWN")

get_outcome_status_lost(reply) ==
  IF reply.ok
  THEN Return([reply.response.metadata EXCEPT !.status = TRAINING_STATUS_UNSPECIFIED])
  ELSE Raise(reply.cause)

\* get_training_job after the await: return response.metadata
get_outcome(reply) ==
  IF reply.ok THEN Return(reply.response.metadata) ELSE Raise(reply.cause)

RECURSIVE Reverse(_)
Reverse(q) == IF q = <<>> THEN <<>> ELSE Append(Reverse(Tail(q)), Head(q))

list_outcome_reversed(reply) ==
  IF reply.ok THEN Return(Reverse(reply.response.jobs)) ELSE Raise(reply.cause)

\* list_training_jobs after the await: return list(response.jobs)
list_outcome(reply) ==
  IF reply.ok THEN Return(list(reply.response.jobs)) ELSE Raise(reply.cause)

cancel_outcome_swallowing(reply) == Return(None)

\* cancel_training_job after the await: falls off the end, returning None
cancel_outcome(reply) ==
  IF reply.ok THEN Return(None) ELSE Raise(reply.cause)

Outcome(op, reply) ==
  CASE op = "submit" -> submit_outcome(reply)
    [] op = "get" -> get_outcome(reply)
    [] op = "list" -> list_outcome(reply)
    [] op = "cancel" -> cancel_outcome(reply)

\* -------------------------------------------------------- the arguments
\* What callers pass.  Spec runs one coroutine at a time over every
\* combination of arguments; SpecConcurrent runs the coroutines concurrently
\* over a few arguments.
SubmitArgs ==
  [org_id : {"org1", ""}, model_name : {"classifier"}, model_version : {"v1"},
   model_type : ModelType, tags : TagLists, filter : {None} \cup {Some(f) : f \in Filter}]
GetArgs == [id : JobIds \cup {UnknownJobId}]
CancelArgs == [id : JobIds \cup {UnknownJobId}]
ListArgs ==
  [org_id : OrgIds, training_status : {None} \cup {Some(st) : st \in TrainingStatus}]

ConcurrentSubmitArgs ==
  {a \in SubmitArgs : /\ a.org_id = "org1"
                      /\ a.model_type = MODEL_TYPE_SINGLE_LABEL_CLASSIFICATION
                      /\ a.tags = <<>>
                      /\ a.filter = None}
ConcurrentGetArgs == {a \in GetArgs : a.id = JobName[1]}
ConcurrentCancelArgs == {a \in CancelArgs : a.id = JobName[1]}
ConcurrentListArgs ==
  {a \in ListArgs : a.org_id = "org1" /\ a.training_status = Some(TRAINING_STATUS_CANCELED)}

\* ------------------------------------------------------------- the calls
NoReply == [ok |-> FALSE, cause |-> "pending"]
NoOutcome == [kind |-> "none"]

Free(s) == slots[s].pc = "idle"

AwaitingWithoutMetadata(op, a, request) ==
  [pc |-> "sent", op |-> op, args |-> a,
   request |-> request,
   metadata |-> [authorization |-> ""],
   attempts |-> 1,
   reply |-> NoReply, outcome |-> NoOutcome,
   after_cancel |-> (op = "get" /\ a.id \in acked)]

\* A coroutine at its await: the request it built has been handed to the
\* stub once, with the client's metadata.  after_cancel records whether a
\* cancel of the same job had returned before the call.
Awaiting(op, a, request) ==
  [pc |-> "sent", op |-> op, args |-> a,
   request |-> request,
   metadata |-> client._metadata,
   attempts |-> 1,
   reply |-> NoReply, outcome |-> NoOutcome,
   after_cancel |-> (op = "get" /\ a.id \in acked)]

submit_training_job(s, Args) ==
  /\ Free(s)
  /\ \E a \in Args : slots' = [slots EXCEPT ![s] = Awaiting("submit", a, submit_request(a))]
  /\ UNCHANGED <<ctor, client, jobs, acked>>

get_training_job(s, Args) ==
  /\ Free(s)
  /\ \E a \in Args : slots' = [slots EXCEPT ![s] = Awaiting("get", a, get_request(a))]
  /\ UNCHANGED <<ctor, client, jobs, acked>>

list_training_jobs(s, Args) ==
  /\ Free(s)
  /\ \E a \in Args : slots' = [slots EXCEPT ![s] = Awaiting("list", a, list_request(a))]
  /\ UNCHANGED <<ctor, client, jobs, acked>>

cancel_training_job(s, Args) ==
  /\ Free(s)
  /\ \E a \in Args : slots' = [slots EXCEPT ![s] = Awaiting("cancel", a, cancel_request(a))]
  /\ UNCHANGED <<ctor, client, jobs, acked>>

AwaitRetrying(s) ==
  /\ slots[s].pc = "replied"
  /\ IF ~slots[s].reply.ok /\ slots[s].reply.cause = "UNAVAILABLE" /\ slots[s].attempts < 2
     THEN /\ slots' = [slots EXCEPT ![s].pc = "sent", ![s].reply = NoReply,
                                    ![s].attempts = @ + 1]
          /\ acked' = acked
     ELSE /\ slots' = [slots EXCEPT ![s].pc = "done",
                                    ![s].outcome = Outcome(slots[s].op, slots[s].reply)]
          /\ acked' = IF slots[s].op = "cancel" /\ slots[s].reply.ok
                      THEN acked \cup {slots[s].args.id} ELSE acked
  /\ UNCHANGED <<ctor, client, jobs>>

\* The await ends: the coroutine returns what it unwraps from the response,
\* or the exception raised at the await leaves the coroutine.
Await(s) ==
  /\ slots[s].pc = "replied"
  /\ slots' = [slots EXCEPT ![s].pc = "done",
                            ![s].outcome = Outcome(slots[s].op, slots[s].reply)]
  /\ acked' = IF slots[s].op = "cancel" /\ slots[s].reply.ok
              THEN acked \cup {slots[s].args.id} ELSE acked
  /\ UNCHANGED <<ctor, client, jobs>>

\* ------------------------------------------------------- the environment
\* The caller's task takes the coroutine's result and ends; the caller may
\* start another coroutine in its place.
TaskEnds(s) ==
  /\ slots[s].pc = "done"
  /\ slots' = [slots EXCEPT ![s] = IdleSlot]
  /\ UNCHANGED <<ctor, client, jobs, acked>>

InFlight(s) == slots[s].pc \in {"sent", "replied"}

Deliver(s, reply) == slots' = [slots EXCEPT ![s].pc = "replied", ![s].reply = reply]

\* The caller's event loop cancels the task: CancelledError is raised at
\* the await.
TaskCancelled(s) ==
  /\ InFlight(s)
  /\ slots[s].reply # Err("CANCELLED")
  /\ Deliver(s, Err("CANCELLED"))
  /\ UNCHANGED <<ctor, client, jobs, acked>>

\* The channel drops the request or the response.
TransportFailure(s) ==
  /\ InFlight(s)
  /\ slots[s].reply \notin {Err("CANCELLED"), Err("UNAVAILABLE")}
  /\ Deliver(s, Err("UNAVAILABLE"))
  /\ UNCHANGED <<ctor, client, jobs, acked>>

Arrived(s, op) == slots[s].pc = "sent" /\ slots[s].op = op
Authorized(s) == slots[s].metadata = ValidToken

Rejected(s, cause) == Deliver(s, Err(cause)) /\ UNCHANGED <<ctor, client, jobs, acked>>

ServeUnauthenticated(s) ==
  /\ slots[s].pc = "sent"
  /\ ~Authorized(s)
  /\ Rejected(s, "UNAUTHENTICATED")

FreeIds == {i \in 1 .. MaxJobs : ~jobs[JobName[i]].exists}

ServeSubmit(s) ==
  /\ Arrived(s, "submit")
  /\ Authorized(s)
  /\ LET r == slots[s].request IN
     IF r.organization_id \notin OrgIds THEN Rejected(s, "INVALID_ARGUMENT")
     ELSE IF FreeIds = {} THEN Rejected(s, "RESOURCE_EXHAUSTED")
     ELSE LET id == JobName[CHOOSE i \in FreeIds : \A k \in FreeIds : i <= k] IN
          /\ jobs' = [jobs EXCEPT ![id] =
               [exists |-> TRUE,
                metadata |-> [id |-> id, organization_id |-> r.organization_id,
                              model_name |-> r.model_name,
                              status |-> TRAINING_STATUS_PENDING]]]
          /\ Deliver(s, Ok([id |-> id]))
          /\ UNCHANGED <<ctor, client, acked>>

\* A service that acknowledges with a default-valued response message: the
\* id field of SubmitTrainingJobResponse is then the empty string.
ServeSubmitDefaultResponse(s) ==
  /\ Arrived(s, "submit")
  /\ Authorized(s)
  /\ Deliver(s, Ok([id |-> ""]))
  /\ UNCHANGED <<ctor, client, jobs, acked>>

ServeGet(s) ==
  /\ Arrived(s, "get")
  /\ Authorized(s)
  /\ LET id == slots[s].request.id IN
     IF id \in JobIds /\ jobs[id].exists
     THEN /\ Deliver(s, Ok([metadata |-> jobs[id].metadata]))
          /\ UNCHANGED <<ctor, client, jobs, acked>>
     ELSE Rejected(s, "NOT_FOUND")

Matching(r) ==
  {id \in JobIds : /\ jobs[id].exists
                   /\ jobs[id].metadata.organization_id = r.organization_id
                   /\ r.status \in {TRAINING_STATUS_UNSPECIFIED, jobs[id].metadata.status}}

Orderings(S) ==
  {q \in [1 .. Cardinality(S) -> S] : \A i, k \in 1 .. Cardinality(S) : i # k => q[i] # q[k]}

ServeList(s) ==
  /\ Arrived(s, "list")
  /\ Authorized(s)
  /\ \E order \in Orderings(Matching(slots[s].request)) :
       Deliver(s, Ok([jobs |-> [i \in 1 .. Len(order) |-> jobs[order[i]].metadata]]))
  /\ UNCHANGED <<ctor, client, jobs, acked>>

ServeCancel(s) ==
  /\ Arrived(s, "cancel")
  /\ Authorized(s)
  /\ LET id == slots[s].request.id IN
     IF ~(id \in JobIds /\ jobs[id].exists) THEN Rejected(s, "NOT_FOUND")
     ELSE IF jobs[id].metadata.status = TRAINING_STATUS_COMPLETED
     THEN Rejected(s, "FAILED_PRECONDITION: already completed")
     ELSE IF jobs[id].metadata.status = TRAINING_STATUS_CANCELED
     THEN Rejected(s, "FAILED_PRECONDITION: already canceled")
     ELSE /\ jobs' = [jobs EXCEPT ![id].metadata.status = TRAINING_STATUS_CANCELED]
          /\ Deliver(s, Ok([acknowledged |-> TRUE]))
          /\ UNCHANGED <<ctor, client, acked>>

\* The training job manager runs a pending job to completion.
Progress(id) ==
  /\ jobs[id].exists
  /\ \/ /\ jobs[id].metadata.status = TRAINING_STATUS_PENDING
        /\ jobs' = [jobs EXCEPT ![id].metadata.status = TRAINING_STATUS_IN_PROGRESS]
     \/ /\ jobs[id].metadata.status = TRAINING_STATUS_IN_PROGRESS
        /\ jobs' = [jobs EXCEPT ![id].metadata.status = TRAINING_STATUS_COMPLETED]
  /\ UNCHANGED <<ctor, client, slots, acked>>

\* ------------------------------------------------------ specifications
Init ==
  /\ ctor \in [channel : {"channel"}, metadata : {ValidToken, ExpiredToken}]
  /\ client = NewClient(ctor.channel, ctor.metadata)
  /\ slots = [s \in Slots |-> IdleSlot]
  /\ jobs = [id \in JobIds |-> NoJob]
  /\ acked = {}

Transport ==
  \/ \E s \in Slots : TaskEnds(s)
  \/ \E s \in Slots : TaskCancelled(s)
  \/ \E s \in Slots : TransportFailure(s)

Service ==
  \/ \E s \in Slots : ServeUnauthenticated(s)
  \/ \E s \in Slots : ServeSubmit(s)
  \/ \E s \in Slots : ServeGet(s)
  \/ \E s \in Slots : ServeList(s)
  \/ \E s \in Slots : ServeCancel(s)

\* One caller, one coroutine at a time, every combination of arguments.
Next ==
  \/ submit_training_job(1, SubmitArgs)
  \/ get_training_job(1, GetArgs)
  \/ list_training_jobs(1, ListArgs)
  \/ cancel_training_job(1, CancelArgs)
  \/ Await(1)
  \/ Transport
  \/ Service
  \/ ServeSubmitDefaultResponse(1)
  \/ \E id \in JobIds : Progress(id)

Spec == Init /\ [][Next]_vars

\* Concurrent callers over the one client.
NextConcurrent ==
  \/ \E s \in Slots : submit_training_job(s, ConcurrentSubmitArgs)
  \/ \E s \in Slots : get_training_job(s, ConcurrentGetArgs)
  \/ \E s \in Slots : list_training_jobs(s, ConcurrentListArgs)
  \/ \E s \in Slots : cancel_training_job(s, ConcurrentCancelArgs)
  \/ \E s \in Slots : Await(s)
  \/ Transport
  \/ Service

SpecConcurrent == Init /\ [][NextConcurrent]_vars

\* ------------------------------------------------------------ properties
Active(s) == slots[s].pc # "idle"
Done(s) == slots[s].pc = "done"
Running(s, op) == Active(s) /\ slots[s].op = op
Finished(s, op) == Done(s) /\ slots[s].op = op
Returned(s) == Done(s) /\ slots[s].outcome.kind = "return"

\* C1: list_training_jobs hands ListTrainingJobs the status
\* TRAINING_STATUS_UNSPECIFIED when its status argument is None and the
\* given status when it is any member of TrainingStatus (the zero-valued
\* member included); the org id is passed unchanged.
C1_ListStatus ==
  \A s \in Slots : Running(s, "list") =>
    LET a == slots[s].args  r == slots[s].request IN
    /\ r.organization_id = a.org_id
    /\ a.training_status = None => r.status = TRAINING_STATUS_UNSPECIFIED
    /\ \A st \in TrainingStatus : a.training_status = Some(st) => r.status = st

C1_Witness ==
  \E s \in Slots :
    /\ Running(s, "list")
    /\ slots[s].args.training_status = Some(TRAINING_STATUS_UNSPECIFIED)
    /\ slots[s].pc = "replied"
    /\ slots[s].reply.ok

\* C2: submit_training_job leaves the request's filter unset when the filter
\* argument is omitted and carries a supplied filter, empty or populated,
\* as present and unchanged: the filter argument can be read back from the
\* request.
C2_FilterPresence ==
  \A s \in Slots : Running(s, "submit") =>
    LET a == slots[s].args  r == slots[s].request IN
    /\ a.filter = None => ~r.has_filter
    /\ a.filter # None => r.has_filter /\ r.filter = a.filter.val
    /\ (IF r.has_filter THEN Some(r.filter) ELSE None) = a.filter

C2_Witness ==
  \E s \in Slots :
    /\ Running(s, "submit")
    /\ slots[s].args.filter = Some(EmptyFilter)
    /\ slots[s].request.has_filter
    /\ slots[s].pc = "replied"

\* C3, as claimed: a finished submit_training_job either raised or returned
\* a non-empty job id.
C3_NonEmptyIdOrFailure ==
  \A s \in Slots : Finished(s, "submit") =>
    \/ slots[s].outcome.kind = "raise"
    \/ slots[s].outcome.kind = "return" /\ slots[s].outcome.value # ""

\* C3, amended: a finished submit_training_job either raised or returned
\* exactly the id of the service's response, so the id returned is non-empty
\* whenever the response's id is; a successful response with an empty id
\* is returned as the empty string.
C3_ResponseIdOrFailure ==
  \A s \in Slots : Finished(s, "submit") =>
    /\ slots[s].outcome.kind \in {"raise", "return"}
    /\ slots[s].outcome.kind = "raise" <=> ~slots[s].reply.ok
    /\ slots[s].outcome.kind = "return" =>
         /\ slots[s].outcome.value = slots[s].reply.response.id
         /\ slots[s].reply.response.id # "" => slots[s].outcome.value # ""

C3_Witness ==
  \E s \in Slots :
    /\ Finished(s, "submit")
    /\ slots[s].reply = Ok([id |-> ""])
    /\ slots[s].outcome = Return("")

\* C4: the request submit_training_job passes to SubmitTrainingJob holds
\* exactly the org id, model name, model version, model type and tags it
\* was called with (tags in the same order), no input is rejected locally,
\* and an acknowledgement with id j makes the call return j.
C4_SubmitVerbatim ==
  \A s \in Slots : Running(s, "submit") =>
    LET a == slots[s].args  r == slots[s].request IN
    /\ r.organization_id = a.org_id
    /\ r.model_name = a.model_name
    /\ r.model_version = a.model_version
    /\ r.model_type = a.model_type
    /\ Len(r.tags) = Len(a.tags)
    /\ \A i \in 1 .. Len(a.tags) : r.tags[i] = a.tags[i]
    /\ Done(s) /\ slots[s].outcome.kind = "raise" => ~slots[s].reply.ok
    /\ Done(s) /\ slots[s].reply.ok => slots[s].outcome = Return(slots[s].reply.response.id)

C4_Witness ==
  \E s \in Slots :
    /\ Finished(s, "submit")
    /\ slots[s].args.tags = <<"prod", "dev">>
    /\ slots[s].args.model_type = MODEL_TYPE_SINGLE_LABEL_CLASSIFICATION
    /\ slots[s].outcome = Return("job-1")

\* C5: when the remote call of any of the four operations fails with cause
\* c, the operation raises with that same cause and returns no value.
C5_CausePropagated ==
  \A s \in Slots : Done(s) /\ ~slots[s].reply.ok =>
    /\ slots[s].outcome = Raise(slots[s].reply.cause)
    /\ slots[s].outcome.kind # "return"

C5_Witness ==
  \E s \in Slots :
    /\ Finished(s, "get")
    /\ slots[s].reply = Err("NOT_FOUND")
    /\ slots[s].outcome = Raise("NOT_FOUND")

\* C6: every started operation has issued exactly one remote invocation,
\* also after its invocation failed.
C6_OneInvocation ==
  \A s \in Slots : Active(s) => slots[s].attempts = 1

C6_Witness ==
  \E s \in Slots :
    /\ Done(s)
    /\ slots[s].reply = Err("UNAVAILABLE")
    /\ slots[s].outcome.kind = "raise"
    /\ slots[s].attempts = 1

\* C7: list_training_jobs returns the jobs of a successful response element
\* for element and in the same order; an empty response yields the empty
\* sequence, not a failure.
C7_ListOrder ==
  \A s \in Slots : Finished(s, "list") /\ slots[s].reply.ok =>
    LET J == slots[s].reply.response.jobs IN
    /\ slots[s].outcome.kind = "return"
    /\ Len(slots[s].outcome.value) = Len(J)
    /\ \A i \in 1 .. Len(J) : slots[s].outcome.value[i] = J[i]

C7_Witness ==
  \E s \in Slots :
    /\ Finished(s, "list")
    /\ slots[s].reply.ok
    /\ Len(slots[s].reply.response.jobs) = 2
    /\ slots[s].reply.response.jobs[1].id = "job-2"
    /\ Returned(s)

\* C8: cancel_training_job returns (None) only when the service
\* acknowledged the cancellation, and then the service holds the job as
\* canceled; when the service reports the job already completed, already
\* canceled or nonexistent, the call raises with that cause.
C8_CancelNotSilent ==
  \A s \in Slots : Finished(s, "cancel") =>
    /\ Returned(s) =>
         /\ slots[s].reply.ok
         /\ slots[s].outcome.value = None
         /\ slots[s].args.id \in JobIds
         /\ jobs[slots[s].args.id].exists
         /\ jobs[slots[s].args.id].metadata.status = TRAINING_STATUS_CANCELED
    /\ \A c \in {"FAILED_PRECONDITION: already completed",
                 "FAILED_PRECONDITION: already canceled", "NOT_FOUND"} :
         slots[s].reply = Err(c) => slots[s].outcome = Raise(c)

C8_Witness ==
  \E s \in Slots :
    /\ Finished(s, "cancel")
    /\ slots[s].reply = Err("FAILED_PRECONDITION: already completed")
    /\ slots[s].outcome.kind = "raise"

\* C9: get_training_job looks up exactly the id it was given and returns
\* the metadata of the service's response unchanged; a get started after a
\* cancel of the same job returned gives the canceled status.
C9_GetVerbatim ==
  \A s \in Slots : Running(s, "get") =>
    /\ slots[s].request.id = slots[s].args.id
    /\ Done(s) /\ slots[s].reply.ok =>
         /\ slots[s].outcome = Return(slots[s].reply.response.metadata)
         /\ slots[s].outcome.value.id = slots[s].args.id
         /\ slots[s].after_cancel =>
              slots[s].outcome.value.status = TRAINING_STATUS_CANCELED

C9_Witness ==
  \E s \in Slots :
    /\ Finished(s, "get")
    /\ slots[s].after_cancel
    /\ Returned(s)
    /\ slots[s].outcome.value.status = TRAINING_STATUS_CANCELED

\* C10: the client's fields stay what the constructor set them to, every
\* call carries the metadata mapping the client was constructed with, and
\* a caller task that is free can start a call, whatever the other calls
\* did (returned, raised, were cancelled at their await).
C10_ClientUnchanged ==
  /\ client = NewClient(ctor.channel, ctor.metadata)
  /\ \A s \in Slots : Active(s) => slots[s].metadata = ctor.metadata
  /\ \A s \in Slots : Free(s) => ENABLED get_training_job(s, ConcurrentGetArgs)

C10_Witness ==
  \E s, t \in Slots :
    /\ s # t
    /\ slots[t].pc = "done" /\ slots[t].outcome = Raise("CANCELLED")
    /\ slots[s].pc = "replied"
    /\ slots[s].reply.ok
    /\ slots[s].metadata = ctor.metadata
    /\ client._metadata = ctor.metadata

====
